---- MODULE Spec2Model ----
(***************************************************************************)
(* Cart / order lifecycle of the Bangazon API.                             *)
(*                                                                         *)
(* The persistent store holds Order rows and OrderProduct (line item)      *)
(* rows.  Every request handler is a sequence of ORM statements; each      *)
(* statement is one atomic step of the worker that serves the request      *)
(* (Django autocommit: no handler opens a transaction).  Spec lets the     *)
(* statements of different requests interleave; SpecSeq runs every request *)
(* to completion before the next one starts and SpecSeqRead adds the       *)
(* requests that only read the orders.  SpecFavorites serves the favorite  *)
(* requests, which touch the Store and Favorite tables only; SpecPayments, *)
(* SpecRecommend, SpecRatings and SpecLikes serve, one request at a time,  *)
(* the handlers of the Payment, Recommendation, ProductRating and          *)
(* Productlike tables.                                                     *)
(***************************************************************************)
EXTENDS Integers, FiniteSets, Sequences, TLC

\* ---- bounds ------------------------------------------------------------
MaxOrders == 2          \* Order ids handed out by the AutoField
MaxLineItems == 2       \* OrderProduct ids handed out by the AutoField
MaxPayments == 2        \* Payment ids handed out by the AutoField
MaxAccountLen == 5      \* characters of the longest account number sent
MaxLikes == 3           \* Productlike ids handed out by the AutoField
MaxStores == 2          \* Store ids handed out by the AutoField

\* ---- fixed collaborators (identity, catalog, payment-method store) ------
Customers == {1, 2}
Products == {1}
ProductIds == {0, 1, 2}        \* 0: body without product_id, 2: no such product
Payments == {[id |-> 1, customer |-> 1], [id |-> 2, customer |-> 2]}
PaymentIds == {1, 2, 3}        \* 3: no such payment
StoreRows == [id : 1..MaxStores, customer : Customers]
StorePks == 1..MaxStores
StoreIds == 0..MaxStores       \* 0: body without store_id
Digits == <<"1", "2", "3", "4", "5", "6", "7", "8", "9">>
\* The texts a request sends as an account number, the empty one included
AccountNumbers == {SubSeq(Digits, 1, n) : n \in 0..MaxAccountLen}
\* The bodies of a create-payment request: each of the two keys the handler
\* reads is absent or holds a text
PaymentBodies ==
    UNION {[keys -> AccountNumbers] :
              keys \in SUBSET {"account_number", "acctNumber"}}
PaymentPks == 1..(MaxPayments + 1)
\* Product.price in cents (every product of the catalog costs 14.99)
Price(product) == 1499
\* Amounts a float sum is computed in: hundredths of a cent
CentFraction == 100
\* What a sum of two or more float prices may differ from the decimal sum by
FloatErrors == {-1, 0, 1}
ReportQueries == {"incomplete", "complete", ""}
\* What a recommend request names its recipient by: a user id under the key
\* recipient, a username (written as the id of the user who has it) under
\* the key username; 0: key absent, 3: no such user
RecipientIds == {0, 1, 2, 3}
\* The numbers a rate-product request sends under the keys rating and score
RatingValues == {0, 1, 5, 6}
\* The bodies of a rate-product request: each key is absent or holds a number
RatingBodies == UNION {[keys -> RatingValues] : keys \in SUBSET {"rating", "score"}}
Reviews == {"", "good"}        \* "": body without review
\* The columns of ProductRating that accept no NULL
ProductRatingNotNull == {"customer", "product", "rating"}
Workers == {"w1", "w2"}

None == 0

ProductPks == ProductIds \ {None}   \* the pk of a product URL

HTTP_200_OK == 200
HTTP_201_CREATED == 201
HTTP_204_NO_CONTENT == 204
HTTP_400_BAD_REQUEST == 400
HTTP_404_NOT_FOUND == 404
HTTP_500_INTERNAL_SERVER_ERROR == 500

VARIABLES
    orders,          \* Order table: set of [id, customer, payment_type]
    lineitems,       \* OrderProduct table: set of [id, order, product]
    nextOrderId,     \* next Order primary key
    nextLineItemId,  \* next OrderProduct primary key
    pc,              \* per worker: the statement its handler executes next
    req,             \* per worker: the request being served
    loc,             \* per worker: the handler's local variables
    last,            \* the response sent by the latest step, if it sent one
    favorites,       \* Favorite table: set of [id, customer, seller]
    stores,          \* Store table: set of [id, customer]
    paymenttypes,    \* Payment table: set of [id, customer, account_number]
    recommendations, \* Recommendation table: set of [id, recommender, customer, product]
    ratings,         \* ProductRating table: set of [id, customer, product, rating, review]
    likes,           \* Productlike table: set of [id, user, product]
    nextLikeId       \* next Productlike primary key

vars == <<orders, lineitems, nextOrderId, nextLineItemId, pc, req, loc, last,
          favorites, stores, paymenttypes, recommendations, ratings, likes,
          nextLikeId>>
db == <<orders, lineitems, nextOrderId, nextLineItemId>>
social == <<paymenttypes, recommendations, ratings, likes, nextLikeId>>

NoReq == [op |-> "none", cust |-> 0, arg |-> 0, pk |-> 0]
NoLoc == [order |-> 0, customer |-> 0, payment |-> 0, size |-> 0,
          created |-> FALSE]
NoResp == [op |-> "none", cust |-> 0, product_id |-> 0, status |-> 0,
           order |-> 0, customer |-> 0, payment_type |-> 0,
           item |-> 0, items |-> {}, size |-> 0,
           created |-> FALSE, hadOpen |-> FALSE,
           pk |-> 0, exception |-> "",
           payments |-> {}, recipient |-> 0, username |-> 0,
           rating |-> 0, review |-> "", query |-> "", data |-> <<>>]

Init ==
    /\ orders = {}
    /\ lineitems = {}
    /\ nextOrderId = 1
    /\ nextLineItemId = 1
    /\ pc = [w \in Workers |-> "idle"]
    /\ req = [w \in Workers |-> NoReq]
    /\ loc = [w \in Workers |-> NoLoc]
    /\ last = NoResp
    /\ favorites = {}
    /\ stores = {}
    /\ paymenttypes = {}
    /\ recommendations = {}
    /\ ratings = {}
    /\ likes = {}
    /\ nextLikeId = 1

\* ---- ORM helpers ---------------------------------------------------------
OrderIds == {o.id : o \in orders}

\* OrderProduct.objects.filter(order=open_order) / order.lineitems.all()
LineItemsOf(id) == {li \in lineitems : li.order = id}

\* Handlers that have yet to insert an Order row / an OrderProduct row
PendingCreates == Cardinality({w \in Workers : pc[w] = "post_create"})
PendingSaves ==
    Cardinality({w \in Workers :
                    \/ pc[w] = "post_save"
                    \/ pc[w] = "post_create" /\ req[w].arg \in Products})

\* A response: the request it answers, the status and default body fields
Response(r, st) ==
    [NoResp EXCEPT !.op = r.op, !.cust = r.cust, !.status = st,
                   !.product_id = IF r.op = "cart_post" THEN r.arg ELSE 0]

\* An exception that no handler catches ends the request with a 500
Unhandled(r, ex) ==
    [Response(r, HTTP_500_INTERNAL_SERVER_ERROR) EXCEPT !.exception = ex]

\* The worker begins to serve request r and goes on to statement p
Continue(w, r, p, l) ==
    /\ pc' = [pc EXCEPT ![w] = p]
    /\ req' = [req EXCEPT ![w] = r]
    /\ loc' = [loc EXCEPT ![w] = l]
    /\ last' = NoResp

\* The worker sends response r and is free for the next request
Respond(w, r) ==
    /\ pc' = [pc EXCEPT ![w] = "idle"]
    /\ req' = [req EXCEPT ![w] = NoReq]
    /\ loc' = [loc EXCEPT ![w] = NoLoc]
    /\ last' = r

\* ---- POST /profile/cart : add a product to the cart ----------------------
\* The lookup of an order that keeps the orders with a payment reference
CartPostLookup_Closed(c) == {o \in orders : o.customer = c /\ o.payment_type # None}

\* Order.objects.get(customer=current_user)
CartPostLookup(c) == {o \in orders : o.customer = c}

\* An add-to-cart that does not look the product up
CartPostGetProduct_NoLookup(w, r, l) == Continue(w, r, "post_save", l)

\* product_id = request.data.get("product_id"); Product.objects.get(pk=...)
\* The catalog does not change, so the lookup is taken together with the
\* statement before it.
CartPostGetProduct(w, r, l) ==
    IF r.arg = None
    THEN Respond(w, [Response(r, HTTP_400_BAD_REQUEST)
                       EXCEPT !.created = l.created])
    ELSE IF r.arg \notin Products
    THEN Respond(w, [Response(r, HTTP_404_NOT_FOUND)
                       EXCEPT !.created = l.created])
    ELSE Continue(w, r, "post_save", l)

\* try: open_order = Order.objects.get(customer=current_user)
\* MultipleObjectsReturned is not caught and ends the request with a 500.
\* The request is admitted only while the primary keys it may take are
\* within MaxOrders and MaxLineItems.
CartPostGetOrder(w, c, product_id) ==
    LET r == [op |-> "cart_post", cust |-> c, arg |-> product_id, pk |-> 0]
        found == CartPostLookup(c)
    IN  /\ pc[w] = "idle"
        /\ UNCHANGED <<favorites, stores, social>>
        /\ found = {} => nextOrderId + PendingCreates <= MaxOrders
        /\ (Cardinality(found) <= 1 /\ product_id \in Products)
              => nextLineItemId + PendingSaves <= MaxLineItems
        /\ UNCHANGED db
        /\ IF found = {}
           THEN Continue(w, r, "post_create", NoLoc)
           ELSE IF Cardinality(found) = 1
           THEN CartPostGetProduct(w, r,
                    [NoLoc EXCEPT !.order = (CHOOSE o \in found : TRUE).id])
           ELSE Respond(w, Unhandled(r, "MultipleObjectsReturned"))

\* except Order.DoesNotExist: open_order = Order.objects.create(...)
CartPostCreateOrder(w) ==
    /\ pc[w] = "post_create"
    /\ UNCHANGED <<favorites, stores, social>>
    /\ orders' = orders \cup {[id |-> nextOrderId, customer |-> req[w].cust,
                               payment_type |-> None]}
    /\ nextOrderId' = nextOrderId + 1
    /\ UNCHANGED <<lineitems, nextLineItemId>>
    /\ CartPostGetProduct(w, req[w],
            [loc[w] EXCEPT !.order = nextOrderId, !.created = TRUE])

\* An add-to-cart that keeps one line item per product of an order
CartPostSaveLineItem_Merge(w, fk_enforced) ==
    LET same == {li \in lineitems : /\ li.order = loc[w].order
                                     /\ li.product = req[w].arg}
        id == IF same = {} THEN nextLineItemId ELSE (CHOOSE li \in same : TRUE).id
    IN  /\ pc[w] = "post_save"
        /\ UNCHANGED <<favorites, stores, social>>
        /\ UNCHANGED <<orders, nextOrderId>>
        /\ lineitems' = lineitems \cup
               {[id |-> id, order |-> loc[w].order, product |-> req[w].arg]}
        /\ nextLineItemId' = IF same = {} THEN nextLineItemId + 1 ELSE nextLineItemId
        /\ Respond(w, [Response(req[w], HTTP_200_OK)
                         EXCEPT !.item = id,
                                !.order = loc[w].order,
                                !.created = loc[w].created])

\* line_item = OrderProduct(product=product, order=open_order); line_item.save()
\* When the order row has been deleted meanwhile the INSERT violates the
\* foreign key: a database that enforces it raises IntegrityError (uncaught,
\* 500), one that does not stores the row.
\* The response also records whether the caller had an order with no payment
\* reference besides one this request created (hadOpen).
CartPostSaveLineItem(w, fk_enforced) ==
    /\ pc[w] = "post_save"
    /\ UNCHANGED <<favorites, stores, social>>
    /\ UNCHANGED <<orders, nextOrderId>>
    /\ IF loc[w].order \notin OrderIds /\ fk_enforced
       THEN /\ UNCHANGED <<lineitems, nextLineItemId>>
            /\ Respond(w, Unhandled(req[w], "IntegrityError"))
       ELSE /\ lineitems' = lineitems \cup
                   {[id |-> nextLineItemId, order |-> loc[w].order,
                     product |-> req[w].arg]}
            /\ nextLineItemId' = nextLineItemId + 1
            /\ Respond(w, [Response(req[w], HTTP_200_OK)
                             EXCEPT !.item = nextLineItemId,
                                    !.order = loc[w].order,
                                    !.created = loc[w].created,
                                    !.hadOpen =
                                       \E o \in orders :
                                          /\ o.customer = req[w].cust
                                          /\ o.payment_type = None
                                          /\ ~(loc[w].created /\ o.id = loc[w].order)])

\* ---- GET /profile/cart : fetch the current cart -------------------------
\* The lookup of a cart that filters on the customer alone
CartGetLookup_AnyPayment(c) == {o \in orders : o.customer = c}

\* Order.objects.get(customer=current_user, payment_type=None)
CartGetLookup(c) == {o \in orders : o.customer = c /\ o.payment_type = None}

\* cart["order"] = OrderSerializer(open_order, ...).data
\* cart["order"]["size"] = len(line_items.data); return Response(cart["order"])
\* The serializer takes the order's fields from the instance open_order and
\* reads its lineitems; line_items is the queryset of line 211, read here.
CartGetBody(r, open_order) ==
    [Response(r, HTTP_200_OK)
        EXCEPT !.order = open_order.order,
               !.customer = open_order.customer,
               !.payment_type = open_order.payment,
               !.items = LineItemsOf(open_order.order),
               !.size = Cardinality(LineItemsOf(open_order.order))]

\* try: open_order = Order.objects.get(...) / except Order.DoesNotExist: 404
\* MultipleObjectsReturned is not caught and ends the request with a 500.
CartGetOrder(w, c) ==
    LET r == [op |-> "cart_get", cust |-> c, arg |-> 0, pk |-> 0]
        found == CartGetLookup(c)
    IN  /\ pc[w] = "idle"
        /\ UNCHANGED <<favorites, stores, social>>
        /\ UNCHANGED db
        /\ IF found = {}
           THEN Respond(w, Response(r, HTTP_404_NOT_FOUND))
           ELSE IF Cardinality(found) = 1
           THEN LET o == CHOOSE x \in found : TRUE
                IN  Continue(w, r, "get_serialize",
                             [NoLoc EXCEPT !.order = o.id,
                                           !.customer = o.customer,
                                           !.payment = o.payment_type])
           ELSE Respond(w, Unhandled(r, "MultipleObjectsReturned"))

CartGetSerialize(w) ==
    /\ pc[w] = "get_serialize"
    /\ UNCHANGED <<favorites, stores, social>>
    /\ UNCHANGED db
    /\ Respond(w, CartGetBody(req[w], loc[w]))

\* The response of GET /profile/cart for customer c when the handler runs
\* from the current state with no other request in between
CartGetAlone(c) ==
    LET r == [op |-> "cart_get", cust |-> c, arg |-> 0, pk |-> 0]
        found == CartGetLookup(c)
    IN  IF found = {}
        THEN Response(r, HTTP_404_NOT_FOUND)
        ELSE IF Cardinality(found) = 1
        THEN LET o == CHOOSE x \in found : TRUE
             IN  CartGetBody(r, [NoLoc EXCEPT !.order = o.id,
                                              !.customer = o.customer,
                                              !.payment = o.payment_type])
        ELSE Unhandled(r, "MultipleObjectsReturned")

\* ---- DELETE /profile/cart : clear the cart -------------------------------
\* The lookup of a cart that filters on the customer alone
CartDeleteLookup_AnyPayment(c) == {o \in orders : o.customer = c}

\* Order.objects.get(customer=current_user, payment_type=None)
CartDeleteLookup(c) == {o \in orders : o.customer = c /\ o.payment_type = None}

\* try: open_order = Order.objects.get(...) / except Order.DoesNotExist: 404
CartDeleteGetOrder(w, c) ==
    LET r == [op |-> "cart_delete", cust |-> c, arg |-> 0, pk |-> 0]
        found == CartDeleteLookup(c)
    IN  /\ pc[w] = "idle"
        /\ UNCHANGED <<favorites, stores, social>>
        /\ UNCHANGED db
        /\ IF found = {}
           THEN Respond(w, Response(r, HTTP_404_NOT_FOUND))
           ELSE IF Cardinality(found) = 1
           THEN LET o == CHOOSE x \in found : TRUE
                IN  Continue(w, r, "delete_items", [NoLoc EXCEPT !.order = o.id])
           ELSE Respond(w, Unhandled(r, "MultipleObjectsReturned"))

\* line_items = OrderProduct.objects.filter(order=open_order); line_items.delete()
\* size is the number of rows deleted.
CartDeleteLineItems(w) ==
    /\ pc[w] = "delete_items"
    /\ UNCHANGED <<favorites, stores, social>>
    /\ lineitems' = lineitems \ LineItemsOf(loc[w].order)
    /\ UNCHANGED <<orders, nextOrderId, nextLineItemId>>
    /\ Continue(w, req[w], "delete_order",
                [loc[w] EXCEPT !.size = Cardinality(LineItemsOf(loc[w].order))])

\* A clear-cart that answers without deleting the order
CartDeleteOrder_KeepOrder(w) ==
    /\ pc[w] = "delete_order"
    /\ UNCHANGED <<favorites, stores, social>>
    /\ UNCHANGED db
    /\ Respond(w, [Response(req[w], HTTP_204_NO_CONTENT)
                     EXCEPT !.order = loc[w].order, !.size = loc[w].size])

\* open_order.delete(); return Response({}, status=204)
\* Model.delete() removes the row and, by cascade, the line items that
\* reference it.
CartDeleteOrder(w) ==
    /\ pc[w] = "delete_order"
    /\ UNCHANGED <<favorites, stores, social>>
    /\ orders' = {o \in orders : o.id # loc[w].order}
    /\ lineitems' = lineitems \ LineItemsOf(loc[w].order)
    /\ UNCHANGED <<nextOrderId, nextLineItemId>>
    /\ Respond(w, [Response(req[w], HTTP_204_NO_CONTENT)
                     EXCEPT !.order = loc[w].order, !.size = loc[w].size])

\* ---- PUT /orders/:id : attach a payment method --------------------------
\* The lookup of the order to pay by its primary key alone
OrdersUpdateLookup_AnyCustomer(pk, c) == {o \in orders : o.id = pk}

\* order = Order.objects.get(pk=pk, customer=customer)
OrdersUpdateLookup(pk, c) == {o \in orders : o.id = pk /\ o.customer = c}

\* Payment.objects.get(pk=request.data["payment_type"])
PaymentLookup(payment_type) == {p \in Payments : p.id = payment_type}

\* customer = ...; order = Order.objects.get(pk=pk, customer=customer)
\* order.payment_type = Payment.objects.get(pk=request.data["payment_type"])
\* Neither Order.DoesNotExist nor Payment.DoesNotExist is caught: each ends
\* the request with a 500.
OrdersUpdateGet(w, c, pk, payment_type) ==
    LET r == [op |-> "orders_update", cust |-> c, arg |-> payment_type, pk |-> pk]
    IN  /\ pc[w] = "idle"
        /\ UNCHANGED <<favorites, stores, social>>
        /\ UNCHANGED db
        /\ IF OrdersUpdateLookup(pk, c) = {}
           THEN Respond(w, [Unhandled(r, "Order.DoesNotExist") EXCEPT !.pk = pk])
           ELSE IF PaymentLookup(payment_type) = {}
           THEN Respond(w, [Unhandled(r, "Payment.DoesNotExist") EXCEPT !.pk = pk])
           ELSE Continue(w, r, "update_save",
                         [NoLoc EXCEPT !.order = pk, !.payment = payment_type])

\* An attach-payment that takes the payment reference off an order that has
\* one
OrdersUpdateSave_Reopen(w) ==
    LET paid == \E o \in orders : o.id = loc[w].order /\ o.payment_type # None
        payment == IF paid THEN None ELSE loc[w].payment
    IN  /\ pc[w] = "update_save"
        /\ UNCHANGED <<favorites, stores, social>>
        /\ orders' = {o \in orders : o.id # loc[w].order} \cup
                     {[id |-> loc[w].order, customer |-> req[w].cust,
                       payment_type |-> payment]}
        /\ UNCHANGED <<lineitems, nextOrderId, nextLineItemId>>
        /\ Respond(w, [Response(req[w], HTTP_204_NO_CONTENT)
                         EXCEPT !.pk = req[w].pk,
                                !.order = loc[w].order,
                                !.payment_type = payment,
                                !.hadOpen = ~paid])

\* An attach-payment that keeps the payment reference an order already has
OrdersUpdateSave_KeepFirst(w) ==
    LET kept == {o \in orders : o.id = loc[w].order /\ o.payment_type # None}
    IN  /\ pc[w] = "update_save"
        /\ UNCHANGED <<favorites, stores, social>>
        /\ orders' = IF kept # {} THEN orders
                      ELSE {o \in orders : o.id # loc[w].order} \cup
                           {[id |-> loc[w].order, customer |-> req[w].cust,
                             payment_type |-> loc[w].payment]}
        /\ UNCHANGED <<lineitems, nextOrderId, nextLineItemId>>
        /\ Respond(w, [Response(req[w], HTTP_204_NO_CONTENT)
                         EXCEPT !.pk = req[w].pk,
                                !.order = loc[w].order,
                                !.payment_type = loc[w].payment,
                                !.hadOpen = kept = {}])

\* order.save(); return Response({}, status=204)
\* Model.save() issues an UPDATE of the row with the instance's pk and, when
\* no row was updated (the order was deleted meanwhile), an INSERT of it.
\* The response also records whether the order was the caller's order with no
\* payment reference before the save (hadOpen).
OrdersUpdateSave(w) ==
    /\ pc[w] = "update_save"
    /\ UNCHANGED <<favorites, stores, social>>
    /\ orders' = {o \in orders : o.id # loc[w].order} \cup
                 {[id |-> loc[w].order, customer |-> req[w].cust,
                   payment_type |-> loc[w].payment]}
    /\ UNCHANGED <<lineitems, nextOrderId, nextLineItemId>>
    /\ Respond(w, [Response(req[w], HTTP_204_NO_CONTENT)
                     EXCEPT !.pk = req[w].pk,
                            !.order = loc[w].order,
                            !.payment_type = loc[w].payment,
                            !.hadOpen = \E o \in orders :
                                           /\ o.id = loc[w].order
                                           /\ o.customer = req[w].cust
                                           /\ o.payment_type = None])

\* ---- DELETE /products/:id/remove-from-order : remove a line item ---------
\* order_product = OrderProduct.objects.get(pk=pk)
RemoveFromOrderLookup(pk) == {li \in lineitems : li.id = pk}

\* A remove-line-item that finds only the line items of the caller's orders
\* that have no payment reference
RemoveFromOrderGet_OwnCart(w, c, pk) ==
    LET r == [op |-> "remove_from_order", cust |-> c, arg |-> 0, pk |-> pk]
        own == {li \in RemoveFromOrderLookup(pk) :
                   \E o \in orders : /\ o.id = li.order /\ o.customer = c
                                      /\ o.payment_type = None}
    IN  /\ pc[w] = "idle"
        /\ UNCHANGED <<favorites, stores, social>>
        /\ UNCHANGED db
        /\ IF own = {}
           THEN Respond(w, [Response(r, HTTP_404_NOT_FOUND) EXCEPT !.item = pk])
           ELSE Continue(w, r, "remove_delete", NoLoc)

\* try: order_product = OrderProduct.objects.get(pk=pk)
\* except OrderProduct.DoesNotExist: 404
RemoveFromOrderGet(w, c, pk) ==
    LET r == [op |-> "remove_from_order", cust |-> c, arg |-> 0, pk |-> pk]
    IN  /\ pc[w] = "idle"
        /\ UNCHANGED <<favorites, stores, social>>
        /\ UNCHANGED db
        /\ IF RemoveFromOrderLookup(pk) = {}
           THEN Respond(w, [Response(r, HTTP_404_NOT_FOUND) EXCEPT !.item = pk])
           ELSE Continue(w, r, "remove_delete", NoLoc)

\* A remove-line-item that deletes every line item of the row's order
RemoveFromOrderDelete_WholeOrder(w) ==
    LET gone == RemoveFromOrderLookup(req[w].pk)
        of == IF gone = {} THEN 0 ELSE (CHOOSE li \in gone : TRUE).order
    IN  /\ pc[w] = "remove_delete"
        /\ UNCHANGED <<favorites, stores, social>>
        /\ lineitems' = lineitems \ LineItemsOf(of)
        /\ UNCHANGED <<orders, nextOrderId, nextLineItemId>>
        /\ Respond(w, [Response(req[w], HTTP_204_NO_CONTENT)
                         EXCEPT !.item = req[w].pk, !.order = of,
                                !.hadOpen = \E o \in orders :
                                               /\ o.id = of
                                               /\ o.customer = req[w].cust
                                               /\ o.payment_type = None,
                                !.size = Cardinality(LineItemsOf(of))])

\* order_product.delete(); return Response({}, status=204)
\* The response also records the order the deleted row belonged to, whether
\* that order was the caller's order with no payment reference (hadOpen) and
\* the number of line items it had (size).
RemoveFromOrderDelete(w) ==
    LET gone == RemoveFromOrderLookup(req[w].pk)
        of == IF gone = {} THEN 0 ELSE (CHOOSE li \in gone : TRUE).order
    IN  /\ pc[w] = "remove_delete"
        /\ UNCHANGED <<favorites, stores, social>>
        /\ lineitems' = lineitems \ gone
        /\ UNCHANGED <<orders, nextOrderId, nextLineItemId>>
        /\ Respond(w, [Response(req[w], HTTP_204_NO_CONTENT)
                         EXCEPT !.item = req[w].pk,
                                !.order = of,
                                !.hadOpen = \E o \in orders :
                                               /\ o.id = of
                                               /\ o.customer = req[w].cust
                                               /\ o.payment_type = None,
                                !.size = Cardinality(LineItemsOf(of))])

\* ---- GET /orders/:id : fetch one order ----------------------------------
\* The lookup of an order by its primary key alone
OrdersRetrieveLookup_AnyCustomer(pk, c) == {o \in orders : o.id = pk}

\* order = Order.objects.get(pk=pk, customer=customer)
OrdersRetrieveLookup(pk, c) == {o \in orders : o.id = pk /\ o.customer = c}

\* The response of GET /orders/pk for customer c from the current state:
\* serializer = OrderSerializer(order, ...); return Response(serializer.data)
\* except Order.DoesNotExist: 404 with a message
OrdersRetrieveBody(c, pk) ==
    LET r == [op |-> "orders_retrieve", cust |-> c, arg |-> 0, pk |-> pk]
        found == OrdersRetrieveLookup(pk, c)
    IN  IF found = {}
        THEN [Response(r, HTTP_404_NOT_FOUND) EXCEPT !.pk = pk]
        ELSE LET order == CHOOSE o \in found : TRUE
             IN  [Response(r, HTTP_200_OK)
                    EXCEPT !.pk = pk,
                           !.order = order.id,
                           !.customer = order.customer,
                           !.payment_type = order.payment_type,
                           !.items = LineItemsOf(order.id)]

\* The handler only reads; it is served while no other request is, so its
\* lookup and its serializer see the same rows and are taken as one step.
OrdersRetrieve(w, c, pk) ==
    /\ pc[w] = "idle"
    /\ UNCHANGED <<favorites, stores, social>>
    /\ UNCHANGED db
    /\ Respond(w, OrdersRetrieveBody(c, pk))

\* ---- GET /orders : list the caller's orders -----------------------------
\* The attributes of an Order that a queryset can filter on
\* (OrderSerializer.Meta.fields without the serializer's own url)
OrderFields == {"id", "created_date", "payment_type", "customer", "lineitems"}

\* orders = Order.objects.filter(customer=customer)
OrdersListLookup(c) == {o \in orders : o.customer = c}

\* payment = self.request.query_params.get("payment_id", None)
\* if payment is not None: orders = orders.filter(payment__id=payment)
\* return Response(json_orders.data)
\* filter() resolves the keyword payment against the attributes of Order
\* when it is called; a keyword that names none of them raises FieldError,
\* which the handler does not catch.
OrdersList(w, c, payment) ==
    LET r == [op |-> "orders_list", cust |-> c, arg |-> payment, pk |-> 0]
        found == OrdersListLookup(c)
    IN  /\ pc[w] = "idle"
        /\ UNCHANGED <<favorites, stores, social>>
        /\ UNCHANGED db
        /\ IF payment = None
           THEN Respond(w, [Response(r, HTTP_200_OK) EXCEPT !.items = found])
           ELSE IF "payment" \in OrderFields
           THEN Respond(w, [Response(r, HTTP_200_OK)
                              EXCEPT !.payment_type = payment,
                                     !.items = {o \in found : o.payment = payment}])
           ELSE Respond(w, [Unhandled(r, "FieldError")
                              EXCEPT !.payment_type = payment])

\* ---- POST /stores/:id/favorite, POST /profile/favoritesellers ------------
\* store = Store.objects.get(pk=pk) / Store.objects.get(id=store_id)
StoreLookup(pk) == {s \in stores : s.id = pk}

\* The statements the two handlers share, from the lookup of the store on:
\*   store = Store.objects.get(...)           except Store.DoesNotExist: 404
\*   if store.seller == current_user: 400
\*   if Favorite.objects.filter(customer=..., seller=store.seller).exists(): 400
\*   favorite = Favorite(customer=current_user, seller=store.seller)
\*   favorite.save(); 201
\* A Store row has the attributes of models/store.py (customer, name,
\* description); reading an attribute it does not have raises AttributeError,
\* which neither handler catches.
FavoriteStore(w, r) ==
    LET found == StoreLookup(r.pk)
    IN  IF found = {}
        THEN /\ UNCHANGED favorites
             /\ Respond(w, [Response(r, HTTP_404_NOT_FOUND) EXCEPT !.pk = r.pk])
        ELSE LET store == CHOOSE s \in found : TRUE
             IN  IF "seller" \notin DOMAIN store
                 THEN /\ UNCHANGED favorites
                      /\ Respond(w, [Unhandled(r, "AttributeError")
                                       EXCEPT !.pk = r.pk])
                 ELSE IF store.seller = r.cust
                 THEN /\ UNCHANGED favorites
                      /\ Respond(w, [Response(r, HTTP_400_BAD_REQUEST)
                                       EXCEPT !.pk = r.pk])
                 ELSE IF \E f \in favorites : /\ f.customer = r.cust
                                              /\ f.seller = store.seller
                 THEN /\ UNCHANGED favorites
                      /\ Respond(w, [Response(r, HTTP_400_BAD_REQUEST)
                                       EXCEPT !.pk = r.pk])
                 ELSE /\ favorites' = favorites \cup
                            {[id |-> Cardinality(favorites) + 1,
                              customer |-> r.cust, seller |-> store.seller]}
                      /\ Respond(w, [Response(r, HTTP_201_CREATED)
                                       EXCEPT !.pk = r.pk])

\* Stores.favorite: POST /stores/pk/favorite
StoresFavorite(w, c, pk) ==
    /\ pc[w] = "idle"
    /\ UNCHANGED <<db, stores, social>>
    /\ FavoriteStore(w, [op |-> "stores_favorite", cust |-> c, arg |-> 0,
                         pk |-> pk])

\* Profile.favoritesellers, POST: store_id = request.data.get("store_id")
\* if not store_id: 400
FavoriteSellersPost(w, c, store_id) ==
    LET r == [op |-> "favoritesellers_post", cust |-> c, arg |-> 0,
              pk |-> store_id]
    IN  /\ pc[w] = "idle"
        /\ UNCHANGED <<db, stores, social>>
        /\ IF store_id = None
           THEN /\ UNCHANGED favorites
                /\ Respond(w, Response(r, HTTP_400_BAD_REQUEST))
           ELSE FavoriteStore(w, r)

\* Profile.favoritesellers, GET:
\* favorites = Favorite.objects.filter(customer=current_user)
\* return Response(serializer.data)
FavoriteSellersGet(w, c) ==
    LET r == [op |-> "favoritesellers_get", cust |-> c, arg |-> 0, pk |-> 0]
    IN  /\ pc[w] = "idle"
        /\ UNCHANGED <<db, stores, favorites, social>>
        /\ Respond(w, [Response(r, HTTP_200_OK)
                         EXCEPT !.items = {f \in favorites : f.customer = c}])

\* ---- GET /reports/orders : order report ----------------------------------
\* sum(item.product.price for item in items), in cents
RECURSIVE SumOfPrices(_)
SumOfPrices(items) ==
    IF items = {} THEN 0
    ELSE LET item == CHOOSE i \in items : TRUE
         IN  Price(item.product) + SumOfPrices(items \ {item})

\* round(x, 2) of an amount x given in hundredths of a cent: the nearest
\* number of cents, a tie going to the even one
Round2(x) ==
    LET q == x \div CentFraction
        r == x % CentFraction
    IN  IF 2 * r < CentFraction THEN q
        ELSE IF 2 * r > CentFraction THEN q + 1
        ELSE IF q % 2 = 0 THEN q ELSE q + 1

\* A total that counts every product of the order once
total_cost_PerProduct(order, err) ==
    LET items == order.lineitems
        first == {i \in items : \A j \in items : j.product = i.product => i.id <= j.id}
        float == SumOfPrices(first) * CentFraction
                    + (IF Cardinality(first) >= 2 THEN err ELSE 0)
    IN  Round2(float)

\* total_cost = round(sum(item.product.price
\*                        for item in order.lineitems.all()), 2)
\* The prices are floats: the sum of two or more of them is the decimal sum
\* up to err.
total_cost(order, err) ==
    LET items == order.lineitems
        float == SumOfPrices(items) * CentFraction
                    + (IF Cardinality(items) >= 2 THEN err ELSE 0)
    IN  Round2(float)

\* The report that lists the orders whatever the query says
OrderReportFilter_All(status) == orders

\* if request.GET.get("status") == "incomplete":
\*     orders = Order.objects.filter(payment_type__isnull=True)
\* else: orders = Order.objects.filter(payment_type__isnull=False)
OrderReportFilter(status) ==
    IF status = "incomplete"
    THEN {o \in orders : o.payment_type = None}
    ELSE {o \in orders : o.payment_type # None}

\* order_data: one entry per order with its id and total_cost; the report of
\* the completed orders adds the payment method.  render() answers 200.
order_data(status, err) ==
    {[id |-> o.id,
      total_cost |-> total_cost([id |-> o.id, lineitems |-> LineItemsOf(o.id)], err),
      payment_type |-> o.payment_type] : o \in OrderReportFilter(status)}

\* order_report is a plain view: it asks for no credentials.  It only reads,
\* and is served while no other request is.
OrderReport(w, status, err) ==
    LET r == [op |-> "order_report", cust |-> 0, arg |-> 0, pk |-> 0]
    IN  /\ pc[w] = "idle"
        /\ UNCHANGED <<favorites, stores, social>>
        /\ UNCHANGED db
        /\ Respond(w, [Response(r, HTTP_200_OK)
                         EXCEPT !.query = status,
                                !.items = order_data(status, err)])

\* ---- POST /products/:id/recommend : recommend a product -----------------
\* A lookup that never finds a recommendation
RecommendationLookup_None(recommender, customer, product) == {}

\* The SELECT of Recommendation.objects.get_or_create(recommender=...,
\* customer=..., product=...)
RecommendationLookup(recommender, customer, product) ==
    {x \in recommendations : /\ x.recommender = recommender
                             /\ x.customer = customer
                             /\ x.product = product}

\* Products.recommend:
\*   try: if recipient: customer = Customer.objects.get(user__id=recipient)
\*        elif username: customer = Customer.objects.get(user__username=username)
\*        else: 400
\*   except Customer.DoesNotExist: 404
\*   if recommender == customer: 400
\*   product = Product.objects.get(pk=pk)          (DoesNotExist is not caught)
\*   rec, created = Recommendation.objects.get_or_create(...)
\*   if not created: 400
\*   rec.save(); 201
\* The request is served while no other is, so the SELECT and the INSERT of
\* get_or_create are one step.
Recommend(w, c, pk, recipient, username) ==
    LET r == [op |-> "recommend", cust |-> c, arg |-> 0, pk |-> pk]
        resp(st) == [Response(r, st) EXCEPT !.pk = pk, !.recipient = recipient,
                                            !.username = username]
        customer == IF recipient # None THEN recipient ELSE username
        found == RecommendationLookup(c, customer, pk)
    IN  /\ pc[w] = "idle"
        /\ UNCHANGED <<db, favorites, stores>>
        /\ UNCHANGED <<paymenttypes, ratings, likes, nextLikeId>>
        /\ IF recipient = None /\ username = None
           THEN /\ UNCHANGED recommendations
                /\ Respond(w, resp(HTTP_400_BAD_REQUEST))
           ELSE IF customer \notin Customers
           THEN /\ UNCHANGED recommendations
                /\ Respond(w, resp(HTTP_404_NOT_FOUND))
           ELSE IF c = customer
           THEN /\ UNCHANGED recommendations
                /\ Respond(w, resp(HTTP_400_BAD_REQUEST))
           ELSE IF pk \notin Products
           THEN /\ UNCHANGED recommendations
                /\ Respond(w, [Unhandled(r, "Product.DoesNotExist")
                                 EXCEPT !.pk = pk, !.recipient = recipient,
                                        !.username = username])
           ELSE IF found # {}
           THEN /\ UNCHANGED recommendations
                /\ Respond(w, resp(HTTP_400_BAD_REQUEST))
           ELSE /\ recommendations' = recommendations \cup
                      {[id |-> Cardinality(recommendations) + 1,
                        recommender |-> c, customer |-> customer, product |-> pk]}
                /\ Respond(w, resp(HTTP_201_CREATED))

\* ---- POST /products/:id/rate-product : rate a product -------------------
\* A lookup that never finds a rating
RatingLookup_None(product, customer) == {}

\* ProductRating.objects.filter(product=product, customer=customer).first()
RatingLookup(product, customer) ==
    {x \in ratings : x.product = product /\ x.customer = customer}

\* not ((rating < 1) or (rating > 5))
RatingInRange(rating) == ~(rating < 1 \/ rating > 5)

\* Products.rate_product:
\*   product = Product.objects.get(pk=pk)          (DoesNotExist is not caught)
\*   rating = request.data.get("rating")
\*   if not rating: rating = request.data.get("score")
\*   review = request.data.get("review", "")
\*   existing_rating = ProductRating.objects.filter(...).first()
\*   try: if (rating is not None) and ((rating < 1) or (rating > 5)):
\*            raise IntegrityError
\*        if existing_rating: set rating and review, save()
\*        else: ProductRating.objects.create(...)
\*   except IntegrityError: 400
\*   201
\* `not rating` is true of an absent key and of 0.  A rating of None passes
\* the range check and fails at the INSERT or UPDATE with IntegrityError.
RateProduct(w, c, pk, data, review) ==
    LET r == [op |-> "rate_product", cust |-> c, arg |-> 0, pk |-> pk]
        resp(st) == [Response(r, st) EXCEPT !.pk = pk, !.data = data,
                                            !.review = review]
        first == IF "rating" \in DOMAIN data THEN data["rating"] ELSE 0
        isNone == first = 0 /\ "score" \notin DOMAIN data
        rating == IF first # 0 THEN first
                  ELSE IF isNone THEN None ELSE data["score"]
        found == RatingLookup(pk, c)
        existing_rating == CHOOSE x \in found : \A y \in found : x.id <= y.id
    IN  /\ pc[w] = "idle"
        /\ UNCHANGED <<db, favorites, stores>>
        /\ UNCHANGED <<paymenttypes, recommendations, likes, nextLikeId>>
        /\ IF pk \notin Products
           THEN /\ UNCHANGED ratings
                /\ Respond(w, [Unhandled(r, "Product.DoesNotExist")
                                 EXCEPT !.pk = pk, !.data = data, !.review = review])
           ELSE IF ~isNone /\ ~RatingInRange(rating)
           THEN /\ UNCHANGED ratings
                /\ Respond(w, resp(HTTP_400_BAD_REQUEST))
           ELSE IF isNone /\ "rating" \in ProductRatingNotNull
           THEN /\ UNCHANGED ratings
                /\ Respond(w, resp(HTTP_400_BAD_REQUEST))
           ELSE IF found # {}
           THEN /\ ratings' = (ratings \ {existing_rating}) \cup
                      {[existing_rating EXCEPT !.rating = rating, !.review = review]}
                /\ Respond(w, [resp(HTTP_201_CREATED)
                                 EXCEPT !.item = existing_rating.id,
                                        !.rating = rating])
           ELSE /\ ratings' = ratings \cup
                      {[id |-> Cardinality(ratings) + 1, customer |-> c,
                        product |-> pk, rating |-> rating, review |-> review]}
                /\ Respond(w, [resp(HTTP_201_CREATED)
                                 EXCEPT !.item = Cardinality(ratings) + 1,
                                        !.rating = rating])

\* ---- POST, DELETE /products/:id/like : like and unlike a product ---------
\* A lookup that never finds a like
ProductlikeLookup_None(product_id, user) == {}

\* The SELECT of Productlike.objects.get_or_create(product=product, user=...)
\* and of Productlike.objects.get(product_id=product_id, user=...)
ProductlikeLookup(product_id, user) ==
    {x \in likes : x.product = product_id /\ x.user = user}

\* ProductLikeViewSet.create:
\*   try: product = Product.objects.get(pk=product_id)
\*        product_like, created = Productlike.objects.get_or_create(...)
\*        if created: save(); return Response(serializer.data)
\*        else: 400
\*   except Product.DoesNotExist: 404
\* get() inside get_or_create raises MultipleObjectsReturned, which is not
\* caught, when it finds more than one row.  The request is served while no
\* other is, so the SELECT and the INSERT of get_or_create are one step.  It
\* is admitted only while the primary key it may take is within MaxLikes.
ProductLikeCreate(w, c, product_id) ==
    LET r == [op |-> "like_create", cust |-> c, arg |-> 0, pk |-> product_id]
        found == ProductlikeLookup(product_id, c)
    IN  /\ pc[w] = "idle"
        /\ UNCHANGED <<db, favorites, stores>>
        /\ UNCHANGED <<paymenttypes, recommendations, ratings>>
        /\ nextLikeId <= MaxLikes
        /\ IF product_id \notin Products
           THEN /\ UNCHANGED <<likes, nextLikeId>>
                /\ Respond(w, [Response(r, HTTP_404_NOT_FOUND) EXCEPT !.pk = product_id])
           ELSE IF found = {}
           THEN /\ likes' = likes \cup {[id |-> nextLikeId, user |-> c,
                                         product |-> product_id]}
                /\ nextLikeId' = nextLikeId + 1
                /\ Respond(w, [Response(r, HTTP_200_OK)
                                 EXCEPT !.pk = product_id, !.item = nextLikeId])
           ELSE IF Cardinality(found) = 1
           THEN /\ UNCHANGED <<likes, nextLikeId>>
                /\ Respond(w, [Response(r, HTTP_400_BAD_REQUEST) EXCEPT !.pk = product_id])
           ELSE /\ UNCHANGED <<likes, nextLikeId>>
                /\ Respond(w, [Unhandled(r, "MultipleObjectsReturned")
                                 EXCEPT !.pk = product_id])

\* ProductLikeViewSet.destroy:
\*   try: product_like = Productlike.objects.get(product_id=..., user=...)
\*        product_like.delete(); 204
\*   except Productlike.DoesNotExist: 404
ProductLikeDestroy(w, c, product_id) ==
    LET r == [op |-> "like_destroy", cust |-> c, arg |-> 0, pk |-> product_id]
        found == ProductlikeLookup(product_id, c)
    IN  /\ pc[w] = "idle"
        /\ UNCHANGED <<db, favorites, stores>>
        /\ UNCHANGED <<paymenttypes, recommendations, ratings, nextLikeId>>
        /\ IF found = {}
           THEN /\ UNCHANGED likes
                /\ Respond(w, [Response(r, HTTP_404_NOT_FOUND) EXCEPT !.pk = product_id])
           ELSE IF Cardinality(found) = 1
           THEN /\ likes' = likes \ found
                /\ Respond(w, [Response(r, HTTP_204_NO_CONTENT)
                                 EXCEPT !.pk = product_id,
                                        !.item = (CHOOSE x \in found : TRUE).id])
           ELSE /\ UNCHANGED likes
                /\ Respond(w, [Unhandled(r, "MultipleObjectsReturned")
                                 EXCEPT !.pk = product_id])

\* ---- /paymenttypes : payment methods ------------------------------------
\* '*' * n and account_num[-4:] as Python computes them: a repetition count
\* below one yields the empty text, and a slice that starts before the first
\* character starts at the first character.
StrMul(ch, n) == IF n <= 0 THEN <<>> ELSE [i \in 1..n |-> ch]
SliceFrom(text, start) ==
    LET from == IF start >= 0 THEN start
                ELSE IF Len(text) + start < 0 THEN 0 ELSE Len(text) + start
    IN  SubSeq(text, from + 1, Len(text))

\* A mask that shows the last three characters
get_obscured_num_LastThree(obj) ==
    LET account_num == obj.account_number
    IN  StrMul("*", Len(account_num) - 3) \o SliceFrom(account_num, -3)

\* account_num = obj.account_number
\* return f"{'*' * (len(account_num) - 4)}{account_num[-4:]}"
get_obscured_num(obj) ==
    LET account_num == obj.account_number
    IN  StrMul("*", Len(account_num) - 4) \o SliceFrom(account_num, -4)

\* PaymentSerializer.Meta.fields: id, url, merchant_name, account_number,
\* expiration_date, create_date, obscured_num.  The model keeps the fields
\* that hold the account number or are computed from it.
PaymentSerializer(obj) ==
    [id |-> obj.id,
     account_number |-> obj.account_number,
     obscured_num |-> get_obscured_num(obj)]

\* Payments.create.  `if not account_number` is true of an absent key and of
\* the empty text; then the value of acctNumber is taken, None when that key
\* is absent.  merchant tells whether the body names a merchant under either
\* key, valid_date whether expiration_date holds a date the DateField
\* accepts (the default "0000-00-00" is not one).  save() raises
\* IntegrityError for a None in a NOT NULL column and ValidationError for the
\* date; both are answered 400.
PaymentsCreate(w, c, data, merchant, valid_date) ==
    LET r == [op |-> "payments_create", cust |-> c, arg |-> 0, pk |-> 0]
        first == IF "account_number" \in DOMAIN data
                 THEN data["account_number"] ELSE <<>>
        given == first # <<>> \/ "acctNumber" \in DOMAIN data
        account_number == IF first # <<>> THEN first
                          ELSE IF given THEN data["acctNumber"] ELSE <<>>
        new_payment == [id |-> Cardinality(paymenttypes) + 1, customer |-> c,
                        account_number |-> account_number]
    IN  /\ pc[w] = "idle"
        /\ UNCHANGED <<db, favorites, stores>>
        /\ UNCHANGED <<recommendations, ratings, likes, nextLikeId>>
        /\ Cardinality(paymenttypes) < MaxPayments
        /\ IF ~given \/ ~merchant \/ ~valid_date
           THEN /\ UNCHANGED paymenttypes
                /\ Respond(w, Response(r, HTTP_400_BAD_REQUEST))
           ELSE /\ paymenttypes' = paymenttypes \cup {new_payment}
                /\ Respond(w, [Response(r, HTTP_201_CREATED)
                                 EXCEPT !.pk = new_payment.id,
                                        !.payments = {PaymentSerializer(new_payment)}])

\* Payments.retrieve: payment_type = Payment.objects.get(pk=pk)
\* except Exception: return HttpResponseServerError(ex)
PaymentsRetrieve(w, c, pk) ==
    LET r == [op |-> "payments_retrieve", cust |-> c, arg |-> 0, pk |-> pk]
        found == {p \in paymenttypes : p.id = pk}
    IN  /\ pc[w] = "idle"
        /\ UNCHANGED <<db, favorites, stores, social>>
        /\ IF found = {}
           THEN Respond(w, [Response(r, HTTP_500_INTERNAL_SERVER_ERROR)
                              EXCEPT !.pk = pk])
           ELSE Respond(w, [Response(r, HTTP_200_OK)
                              EXCEPT !.pk = pk,
                                     !.payments = {PaymentSerializer(
                                                     CHOOSE p \in found : TRUE)}])

\* Payments.list: payment_types = Payment.objects.filter(customer=customer)
PaymentsList(w, c) ==
    LET r == [op |-> "payments_list", cust |-> c, arg |-> 0, pk |-> 0]
        payment_types == {p \in paymenttypes : p.customer = c}
    IN  /\ pc[w] = "idle"
        /\ UNCHANGED <<db, favorites, stores, social>>
        /\ Respond(w, [Response(r, HTTP_200_OK)
                         EXCEPT !.payments = {PaymentSerializer(p) :
                                                 p \in payment_types}])

\* ---- specifications -------------------------------------------------------
OrderPks == 1..MaxOrders
LineItemPks == 1..MaxLineItems
PaymentFilters == {None} \cup {p.id : p \in Payments}

\* One statement of the handler that worker w runs
Statement(w) ==
    \/ CartPostCreateOrder(w)
    \/ \E fk_enforced \in BOOLEAN : CartPostSaveLineItem(w, fk_enforced)
    \/ CartGetSerialize(w)
    \/ CartDeleteLineItems(w)
    \/ CartDeleteOrder(w)
    \/ OrdersUpdateSave(w)
    \/ RemoveFromOrderDelete(w)

\* A request arrives at worker w, which runs the handler's first statement
Arrive(w) ==
    \/ \E c \in Customers, product_id \in ProductIds : CartPostGetOrder(w, c, product_id)
    \/ \E c \in Customers : CartGetOrder(w, c)
    \/ \E c \in Customers : CartDeleteGetOrder(w, c)
    \/ \E c \in Customers, pk \in OrderPks, payment_type \in PaymentIds :
          OrdersUpdateGet(w, c, pk, payment_type)
    \/ \E c \in Customers, pk \in LineItemPks : RemoveFromOrderGet(w, c, pk)

AllIdle == \A w \in Workers : pc[w] = "idle"

\* Requests are served concurrently
Next == \E w \in Workers : Arrive(w) \/ Statement(w)

Spec == Init /\ [][Next]_vars

\* A request arrives while no other request is being served
ArriveAlone(w) ==
    \/ \E c \in Customers, product_id \in ProductIds :
          AllIdle /\ CartPostGetOrder(w, c, product_id)
    \/ \E c \in Customers : AllIdle /\ CartGetOrder(w, c)
    \/ \E c \in Customers : AllIdle /\ CartDeleteGetOrder(w, c)
    \/ \E c \in Customers, pk \in OrderPks, payment_type \in PaymentIds :
          AllIdle /\ OrdersUpdateGet(w, c, pk, payment_type)
    \/ \E c \in Customers, pk \in LineItemPks :
          AllIdle /\ RemoveFromOrderGet(w, c, pk)

\* Every request runs to completion before the next one starts: one worker
\* serves them all
Server == CHOOSE w \in Workers : TRUE

NextSeq == ArriveAlone(Server) \/ Statement(Server)

SpecSeq == Init /\ [][NextSeq]_vars

\* A request that only reads the orders arrives while no other request is
\* being served
ArriveRead(w) ==
    \/ \E c \in Customers, pk \in OrderPks : AllIdle /\ OrdersRetrieve(w, c, pk)
    \/ \E c \in Customers, payment \in PaymentFilters :
          AllIdle /\ OrdersList(w, c, payment)
    \/ \E status \in ReportQueries, err \in FloatErrors :
          AllIdle /\ OrderReport(w, status, err)

NextSeqRead == ArriveAlone(Server) \/ Statement(Server) \/ ArriveRead(Server)

\* SpecSeq together with the requests that only read the orders
SpecSeqRead == Init /\ [][NextSeqRead]_vars

\* The Store tables the favorite requests are served from: no two rows share
\* an id
StoreTables ==
    {t \in SUBSET StoreRows : \A s1, s2 \in t : s1.id = s2.id => s1 = s2}

\* The database holds a Store table and no order and no Favorite yet
InitFavorites ==
    /\ orders = {}
    /\ lineitems = {}
    /\ nextOrderId = 1
    /\ nextLineItemId = 1
    /\ pc = [w \in Workers |-> "idle"]
    /\ req = [w \in Workers |-> NoReq]
    /\ loc = [w \in Workers |-> NoLoc]
    /\ last = NoResp
    /\ favorites = {}
    /\ stores \in StoreTables
    /\ paymenttypes = {}
    /\ recommendations = {}
    /\ ratings = {}
    /\ likes = {}
    /\ nextLikeId = 1

\* A favorite request arrives at worker w
ArriveFavorite(w) ==
    \/ \E c \in Customers, pk \in StorePks : StoresFavorite(w, c, pk)
    \/ \E c \in Customers, store_id \in StoreIds : FavoriteSellersPost(w, c, store_id)
    \/ \E c \in Customers : FavoriteSellersGet(w, c)

NextFavorites == \E w \in Workers : ArriveFavorite(w)

\* The favorite requests, served from any Store table
SpecFavorites == InitFavorites /\ [][NextFavorites]_vars

\* A payment-method request arrives at worker w
ArrivePayment(w) ==
    \/ \E c \in Customers, data \in PaymentBodies, merchant, valid_date \in BOOLEAN :
          PaymentsCreate(w, c, data, merchant, valid_date)
    \/ \E c \in Customers, pk \in PaymentPks : PaymentsRetrieve(w, c, pk)
    \/ \E c \in Customers : PaymentsList(w, c)

NextPayments == ArrivePayment(Server)

\* The payment-method requests, served one at a time from an empty table
SpecPayments == Init /\ [][NextPayments]_vars

\* A recommend request arrives at worker w
ArriveRecommend(w) ==
    \E c \in Customers, pk \in ProductPks, recipient, username \in RecipientIds :
        Recommend(w, c, pk, recipient, username)

NextRecommend == ArriveRecommend(Server)

\* The recommend requests, served one at a time
SpecRecommend == Init /\ [][NextRecommend]_vars

\* A rate-product request arrives at worker w
ArriveRating(w) ==
    \E c \in Customers, pk \in ProductPks, data \in RatingBodies, review \in Reviews :
        RateProduct(w, c, pk, data, review)

NextRatings == ArriveRating(Server)

\* The rate-product requests, served one at a time
SpecRatings == Init /\ [][NextRatings]_vars

\* A like or unlike request arrives at worker w
ArriveLike(w) ==
    \/ \E c \in Customers, product_id \in ProductPks : ProductLikeCreate(w, c, product_id)
    \/ \E c \in Customers, product_id \in ProductPks : ProductLikeDestroy(w, c, product_id)

NextLikes == ArriveLike(Server)

\* The like and unlike requests, served one at a time
SpecLikes == Init /\ [][NextLikes]_vars

\* ---- properties -----------------------------------------------------------
\* The orders of customer c that have no payment reference
OpenOrdersOf(c) == {o \in orders : o.customer = c /\ o.payment_type = None}

\* C1: whenever all requests have completed, also after interleaved requests,
\* every customer has at most one order with no payment reference.
C1_OneOpenOrderWhenQuiescent ==
    AllIdle => \A c \in Customers : Cardinality(OpenOrdersOf(c)) <= 1

\* C2: when every request completes before the next one starts, each customer
\* has at most one order with no payment reference, after any sequence of
\* add-to-cart, remove-line-item, clear-cart and attach-payment requests.
C2_OneOpenOrderSequential ==
    \A c \in Customers : \A o1, o2 \in OpenOrdersOf(c) : o1 = o2

\* C2 witness: an add-to-cart reused the caller's cart instead of creating one,
\* after an order had been closed and a cart had been cleared.
C2_Witness ==
    /\ last.op = "cart_post" /\ last.status = HTTP_200_OK /\ ~last.created
    /\ OpenOrdersOf(last.cust) # {}
    /\ \E o \in orders : o.payment_type # None

\* C3: a successful add-to-cart attaches the line item to an order of the
\* caller with no payment reference, and creates that order when the caller
\* had none.
C3_AddAttachesToOpenOrder ==
    (last.op = "cart_post" /\ last.status = HTTP_200_OK) =>
        /\ \E o \in OpenOrdersOf(last.cust) : o.id = last.order
        /\ ~last.hadOpen => last.created

\* C4: an add-to-cart by the owner of an order that has a payment reference
\* leaves the set of line items of that order unchanged.
C4_ClosedOrderKeepsLineItems ==
    [][\A o \in orders :
          (o.payment_type # None /\ last'.op = "cart_post" /\ last'.cust = o.customer)
             => {li \in lineitems' : li.order = o.id} = {li \in lineitems : li.order = o.id}]_vars

\* C5: add-to-cart for an existing product never fails: the response is a
\* success that carries the new line item, attached to an order that exists.
C5_AddNeverFails ==
    (last.op = "cart_post" /\ last.product_id \in Products) =>
        /\ last.status = HTTP_200_OK
        /\ last.order \in OrderIds
        /\ \E li \in lineitems : li.id = last.item /\ li.order = last.order

\* C6: right after a successful add-to-cart of product P, fetch-cart by the
\* same customer succeeds, its line items include exactly one entry that
\* references P, and its size is the number of line items of the order.
\* Stated for an add that leaves the order with a single entry for P (an order
\* that held P before holds it more than once afterwards).
C6_FetchAfterAdd ==
    (/\ AllIdle /\ last.op = "cart_post" /\ last.status = HTTP_200_OK
     /\ Cardinality({li \in lineitems : li.order = last.order
                                        /\ li.product = last.product_id}) = 1) =>
        LET cart == CartGetAlone(last.cust)
        IN  /\ cart.status = HTTP_200_OK
            /\ Cardinality({li \in cart.items : li.product = last.product_id}) = 1
            /\ cart.size = Cardinality({li \in lineitems : li.order = cart.order})

\* C7: fetch-cart answers 404 when the caller has no order with no payment
\* reference and 200 with that order when the caller has one; the order it
\* returns is owned by the caller and has no payment reference, and no
\* statement of the handler changes the stored state.
C7_FetchCartReturnsOpenOrder ==
    [][/\ last'.op = "cart_get" =>
            LET open == OpenOrdersOf(last'.cust)
            IN  /\ open = {} => last'.status = HTTP_404_NOT_FOUND
                /\ Cardinality(open) = 1 => last'.status = HTTP_200_OK
                /\ last'.status = HTTP_200_OK =>
                      /\ \E o \in open : o.id = last'.order
                      /\ last'.customer = last'.cust
                      /\ last'.payment_type = None
                      /\ last'.items = {li \in lineitems : li.order = last'.order}
                /\ UNCHANGED db
       /\ \A w \in Workers :
            (pc[w] # pc'[w] /\ "get_serialize" \in {pc[w], pc'[w]}) => UNCHANGED db
      ]_vars

\* C7 witness: a fetch-cart returned the caller's cart while another customer
\* owns an order that has a payment reference.
C7_Witness ==
    /\ last.op = "cart_get" /\ last.status = HTTP_200_OK /\ last.size > 0
    /\ \E o \in orders : o.customer # last.cust /\ o.payment_type # None

\* C8: after remove-line-item succeeds for a line item L of the caller's order
\* with no payment reference, L is gone and fetch-cart succeeds, returns the
\* same order without L and a size one smaller; remove-line-item with an id
\* that matches no line item answers 404 and changes nothing.
C8_RemoveLineItem ==
    [][/\ (/\ last'.op = "remove_from_order"
           /\ last'.status = HTTP_204_NO_CONTENT
           /\ last'.hadOpen) =>
            /\ \A li \in lineitems' : li.id # last'.item
            /\ LET cart == (CartGetAlone(last.cust))'
               IN  /\ cart.status = HTTP_200_OK
                   /\ cart.order = last'.order
                   /\ \A li \in cart.items : li.id # last'.item
                   /\ cart.size = last'.size - 1
                   /\ cart.size = Cardinality(cart.items)
       /\ (last'.op = "remove_from_order" /\ last'.status = HTTP_404_NOT_FOUND) =>
            /\ \A li \in lineitems : li.id # last'.item
            /\ UNCHANGED db
       /\ \A w \in Workers :
            (pc[w] = "idle" /\ pc'[w] = "remove_delete") =>
                \E li \in lineitems : li.id = req'[w].pk
      ]_vars

\* C8 witness: the only line item of the caller's cart was removed.
C8_Witness ==
    /\ last.op = "remove_from_order" /\ last.status = HTTP_204_NO_CONTENT
    /\ last.hadOpen /\ last.size = 1

\* C9: after clear-cart on a populated cart every line item of the cart and
\* the order itself are deleted, and fetch-cart by the same customer answers
\* 404.
C9_ClearPopulatedCart ==
    (last.op = "cart_delete" /\ last.size > 0) =>
        /\ last.status = HTTP_204_NO_CONTENT
        /\ \A o \in orders : o.id # last.order
        /\ \A li \in lineitems : li.order # last.order
        /\ CartGetAlone(last.cust).status = HTTP_404_NOT_FOUND

\* C9 witness: a cart with two line items was cleared.
C9_Witness ==
    last.op = "cart_delete" /\ last.status = HTTP_204_NO_CONTENT /\ last.size = 2

\* C10 as written: clear-cart answers 404 and changes nothing when the
\* caller has no cart and when the cart has no line items.
C10_ClearEmptyIsNotFound ==
    [][(last'.op = "cart_delete" /\ last'.size = 0) =>
          (last'.status = HTTP_404_NOT_FOUND /\ UNCHANGED db)]_vars

\* C10 amended: clear-cart answers 404 and changes nothing exactly when the
\* caller has no order with no payment reference; when the caller has such an
\* order with no line items it answers 204 and deletes that order.
C10_ClearEmptyDeletesOrder ==
    [][last'.op = "cart_delete" =>
          LET open == OpenOrdersOf(last'.cust)
          IN  /\ last'.status \in {HTTP_204_NO_CONTENT, HTTP_404_NOT_FOUND}
              /\ last'.status = HTTP_404_NOT_FOUND <=> open = {}
              /\ last'.status = HTTP_404_NOT_FOUND => UNCHANGED db
              /\ (last'.status = HTTP_204_NO_CONTENT /\ last'.size = 0) =>
                    /\ orders' = orders \ open
                    /\ UNCHANGED <<lineitems, nextOrderId, nextLineItemId>>
      ]_vars

\* C10 witness: a cart with no line items was cleared.
C10_Witness ==
    last.op = "cart_delete" /\ last.status = HTTP_204_NO_CONTENT /\ last.size = 0

\* C11: after attach-payment succeeds with payment method M on an order of
\* the caller, fetching that order reports M as its payment reference,
\* whatever reference the order had before (the last write wins); attaching
\* the reference the order already has leaves the stored state as it was.
C11_AttachPaymentLastWriteWins ==
    [][(last'.op = "orders_update" /\ last'.status = HTTP_204_NO_CONTENT) =>
          LET fetched == (OrdersRetrieveBody(last.cust, last.order))'
          IN  /\ fetched.status = HTTP_200_OK
              /\ fetched.order = last'.order
              /\ fetched.payment_type = last'.payment_type
              /\ last'.payment_type \in {p.id : p \in Payments}
              /\ (\E o \in orders : /\ o.id = last'.order
                                    /\ o.payment_type = last'.payment_type)
                    => UNCHANGED db
      ]_vars

\* C11 witness: a payment method was attached to an order that already had a
\* payment reference.
C11_Witness ==
    /\ last.op = "orders_update" /\ last.status = HTTP_204_NO_CONTENT
    /\ ~last.hadOpen
    /\ \E o \in orders : o.id = last.order /\ o.payment_type = last.payment_type

\* C12: every order that has a payment reference references a payment method
\* owned by the customer who owns the order.
C12_PaymentOwnedByOrderCustomer ==
    \A o \in orders :
        o.payment_type # None =>
            \E p \in Payments : p.id = o.payment_type /\ p.customer = o.customer

\* C13: an attach-payment that names an order the caller does not own (an
\* order of another customer or no order at all) or a payment method that
\* does not exist fails with an error status; a failed attach-payment leaves
\* every order as it was, and a successful one changes only the order it
\* names, which the caller owns.
C13_AttachPaymentOwnOrderOnly ==
    [][last'.op = "orders_update" =>
          LET own == {o \in orders : o.id = last'.pk /\ o.customer = last'.cust}
          IN  /\ last'.status \in {HTTP_204_NO_CONTENT, HTTP_500_INTERNAL_SERVER_ERROR}
              /\ own = {} => last'.status = HTTP_500_INTERNAL_SERVER_ERROR
              /\ last'.status = HTTP_500_INTERNAL_SERVER_ERROR => UNCHANGED db
              /\ last'.status = HTTP_204_NO_CONTENT =>
                    /\ last'.payment_type \in {p.id : p \in Payments}
                    /\ orders \ own = orders' \ {o \in orders' : o.id = last'.pk}
                    /\ \A o \in orders' : o.id = last'.pk => o.customer = last'.cust
      ]_vars

\* C13 witness: an attach-payment that named an order of another customer
\* failed.
C13_Witness ==
    /\ last.op = "orders_update" /\ last.status = HTTP_500_INTERNAL_SERVER_ERROR
    /\ \E o \in orders : o.id = last.pk /\ o.customer # last.cust

\* C14: fetching an order by id answers 200 with the order exactly when an
\* order with that id exists and belongs to the caller; otherwise it answers
\* 404 and the response carries no field of any order.
C14_FetchOrderOwnOnly ==
    last.op = "orders_retrieve" =>
        LET own == {o \in orders : o.id = last.pk /\ o.customer = last.cust}
        IN  IF own # {}
            THEN /\ last.status = HTTP_200_OK
                 /\ last.order = last.pk
                 /\ last.customer = last.cust
                 /\ \E o \in own : o.payment_type = last.payment_type
                 /\ last.items = {li \in lineitems : li.order = last.pk}
            ELSE /\ last.status = HTTP_404_NOT_FOUND
                 /\ last.order = 0 /\ last.customer = 0
                 /\ last.payment_type = 0 /\ last.items = {}

\* C14 witness: a customer asked for an order of another customer that has
\* line items.
C14_Witness ==
    /\ last.op = "orders_retrieve" /\ last.status = HTTP_404_NOT_FOUND
    /\ \E o \in orders : o.id = last.pk /\ o.customer # last.cust
    /\ \E li \in lineitems : li.order = last.pk

\* C15: remove-line-item for an id that matches a line item answers 204 and
\* deletes exactly that line item, whoever the caller is and whether or not
\* the order of the line item has a payment reference.
C15_RemoveIgnoresOwnerAndState ==
    [][(/\ last'.op = "remove_from_order"
        /\ \E li \in lineitems : li.id = last'.item) =>
          /\ last'.status = HTTP_204_NO_CONTENT
          /\ lineitems' = {li \in lineitems : li.id # last'.item}
          /\ orders' = orders
      ]_vars

\* C15 witness: a customer removed a line item of another customer's order
\* that has a payment reference.
C15_Witness ==
    /\ last.op = "remove_from_order" /\ last.status = HTTP_204_NO_CONTENT
    /\ \E o \in orders : /\ o.id = last.order /\ o.customer # last.cust
                         /\ o.payment_type # None

\* C16: list-orders answers 200 with exactly the orders the caller owns and,
\* when a payment_id filter is given, exactly those of them whose payment
\* reference is that payment method.
C16_ListOrders ==
    last.op = "orders_list" =>
        /\ last.status = HTTP_200_OK
        /\ last.items = {o \in orders :
                            /\ o.customer = last.cust
                            /\ \/ last.payment_type = None
                               \/ o.payment_type = last.payment_type}

\* C17: add-to-cart without a product_id answers 400 and add-to-cart with a
\* product_id that matches no product answers 404; neither creates a line
\* item.
C17_AddWithoutProduct ==
    [][last'.op = "cart_post" =>
          /\ last'.product_id = None =>
                /\ last'.status = HTTP_400_BAD_REQUEST
                /\ UNCHANGED <<lineitems, nextLineItemId>>
          /\ (last'.product_id # None /\ last'.product_id \notin Products) =>
                /\ last'.status = HTTP_404_NOT_FOUND
                /\ UNCHANGED <<lineitems, nextLineItemId>>
      ]_vars

\* C17 witness: an add-to-cart for a product that does not exist was refused
\* while the caller's cart held a line item.
C17_Witness ==
    /\ last.op = "cart_post" /\ last.status = HTTP_404_NOT_FOUND
    /\ \E o \in OpenOrdersOf(last.cust) : LineItemsOf(o.id) # {}

\* C18: no response of a cart or order operation is the outcome of an
\* exception that escaped its handler.
C18_NoUnhandledException ==
    last.op \in {"cart_post", "cart_get", "cart_delete", "remove_from_order",
                 "orders_retrieve", "orders_update", "orders_list"}
        => last.exception = ""

\* C19: every successful add-to-cart of product P adds one line item with a
\* new id that references P, so that the order holds one more line item for
\* P than before; the size fetch-cart reports for the caller's cart is the
\* number of its line items.
C19_RepeatedAddsRepeatLineItems ==
    [][(last'.op = "cart_post" /\ last'.status = HTTP_200_OK) =>
          LET P == last'.product_id
              ofP(rows) == {li \in rows : li.order = last'.order /\ li.product = P}
              cart == (CartGetAlone(last.cust))'
          IN  /\ \A li \in lineitems : li.id # last'.item
              /\ lineitems' = lineitems \cup
                    {[id |-> last'.item, order |-> last'.order, product |-> P]}
              /\ Cardinality(ofP(lineitems')) = Cardinality(ofP(lineitems)) + 1
              /\ cart.status = HTTP_200_OK =>
                    cart.size = Cardinality({li \in lineitems' : li.order = cart.order})
      ]_vars

\* C19 witness: the caller's cart holds the same product in MaxLineItems line
\* items and nothing else.
C19_Witness ==
    /\ last.op = "cart_post" /\ last.status = HTTP_200_OK
    /\ CartGetAlone(last.cust).status = HTTP_200_OK
    /\ CartGetAlone(last.cust).order = last.order
    /\ CartGetAlone(last.cust).size = MaxLineItems
    /\ \A li \in LineItemsOf(last.order) : li.product = last.product_id

\* C20: there is at most one Favorite per (customer, seller) pair and none
\* whose customer is its seller; a favorite request for the caller's own
\* store, or for a seller the caller has a Favorite for, answers 400 and
\* creates nothing.
C20_FavoriteUniqueNotSelf ==
    [][/\ \A f1, f2 \in favorites' :
            (f1.customer = f2.customer /\ f1.seller = f2.seller) => f1 = f2
       /\ \A f \in favorites' : f.customer # f.seller
       /\ \A s \in stores :
            (/\ last'.op \in {"stores_favorite", "favoritesellers_post"}
             /\ last'.pk = s.id
             /\ \/ s.customer = last'.cust
                \/ \E f \in favorites : /\ f.customer = last'.cust
                                        /\ f.seller = s.customer) =>
                /\ last'.status = HTTP_400_BAD_REQUEST
                /\ favorites' = favorites
      ]_vars

\* C26: an add-to-cart that answers 400 or 404 leaves the stored state as it
\* was; in particular it creates no order.
C26_FailedAddChangesNothing ==
    [][(/\ last'.op = "cart_post"
        /\ last'.status \in {HTTP_400_BAD_REQUEST, HTTP_404_NOT_FOUND}) =>
          UNCHANGED db]_vars

\* C27: with requests run one at a time, an order that has a payment
\* reference is still stored, with a payment reference and the same owner,
\* after every step, and no statement of clear-cart deletes a line item of
\* such an order.
C27_ClosedOrderStaysClosed ==
    [][\A o \in orders :
          o.payment_type # None =>
             /\ \E n \in orders' : /\ n.id = o.id /\ n.customer = o.customer
                                   /\ n.payment_type # None
             /\ (\E w \in Workers : pc[w] \in {"delete_items", "delete_order"}) =>
                   {li \in lineitems' : li.order = o.id}
                      = {li \in lineitems : li.order = o.id}
      ]_vars

\* C27 witness: a clear-cart was requested by the owner of an order that has
\* a payment reference and a line item.
C27_Witness ==
    /\ last.op = "cart_delete"
    /\ \E o \in orders : /\ o.customer = last.cust /\ o.payment_type # None
                         /\ LineItemsOf(o.id) # {}

PaymentTexts(p) == {p.account_number, p.obscured_num}

\* C25: no response of create, retrieve or list shows the stored account
\* number of a payment method in full (an account number of more than four
\* characters, which masking changes).
C25_AccountNumberNeverShownInFull ==
    \A p \in last.payments : \A row \in paymenttypes :
        (row.id = p.id /\ Len(row.account_number) > 4) =>
            row.account_number \notin PaymentTexts(p)

\* text is the mask of account_num: same length, the last four characters
\* kept, '*' in every other position
IsMaskOf(text, account_num) ==
    /\ Len(text) = Len(account_num)
    /\ \A i \in 1..Len(text) :
          text[i] = IF i > Len(text) - 4 THEN account_num[i] ELSE "*"

\* C30: the obscured_num of every payment method a response shows is the mask
\* of the stored account number, whatever its length.
C30_ObscuredNumIsMask ==
    \A p \in last.payments : \A row \in paymenttypes :
        row.id = p.id => IsMaskOf(p.obscured_num, row.account_number)

\* C30 witness: one response lists a payment method whose account number has
\* fewer than four characters and one whose account number has more.
C30_Witness ==
    /\ last.op = "payments_list"
    /\ \E p \in last.payments : Len(p.obscured_num) \in 1..3
    /\ \E p \in last.payments : Len(p.obscured_num) > 4

\* The decimal sum, in cents, of the prices of the line items of order id:
\* for every product its price times the number of line items that name it
RECURSIVE PriceTimesCount(_, _)
PriceTimesCount(id, products) ==
    IF products = {} THEN 0
    ELSE LET p == CHOOSE x \in products : TRUE
         IN  Price(p) * Cardinality({li \in lineitems : li.order = id /\ li.product = p})
                + PriceTimesCount(id, products \ {p})

\* The ids of the orders the report for a query lists, from the current state
ReportedIds(status) == {e.id : e \in order_data(status, 0)}

\* C29: the report for status=incomplete lists exactly the orders with no
\* payment reference and the report for any other query exactly the orders
\* with one, so every order is in exactly one of the two; every listed total
\* is the sum of the prices of the products of the order's line items, a
\* product counted once per line item.
C29_OrderReport ==
    /\ \A o \in orders :
          /\ (o.id \in ReportedIds("incomplete")) = (o.payment_type = None)
          /\ (o.id \in ReportedIds("complete")) = (o.payment_type # None)
          /\ (o.id \in ReportedIds("incomplete")) # (o.id \in ReportedIds("complete"))
    /\ last.op = "order_report" =>
          /\ {e.id : e \in last.items} =
                {o.id : o \in {x \in orders :
                                (x.payment_type = None) = (last.query = "incomplete")}}
          /\ \A e \in last.items :
                e.total_cost = PriceTimesCount(e.id, {li.product : li \in lineitems})

\* C29 witness: a report lists an order with two line items for the same
\* product while an order of the other payment state is stored.
C29_Witness ==
    /\ last.op = "order_report"
    /\ \E e \in last.items :
          \E l1, l2 \in LineItemsOf(e.id) : l1 # l2 /\ l1.product = l2.product
    /\ \E o \in orders : o.id \notin {e.id : e \in last.items}

\* The customer a recommend response was addressed to
Recipient(resp) == IF resp.recipient # None THEN resp.recipient ELSE resp.username

\* C21: after every recommend request no two Recommendations have the same
\* recommender, customer and product and none has its recommender as its
\* customer; a request that names the caller as recipient, or a triple that is
\* stored already, is answered 400 and adds no Recommendation.
C21_RecommendationUniqueNotSelf ==
    [][/\ \A x, y \in recommendations' :
             (/\ x.recommender = y.recommender /\ x.customer = y.customer
              /\ x.product = y.product) => x = y
       /\ \A x \in recommendations' : x.recommender # x.customer
       /\ (/\ last'.op = "recommend"
           /\ \/ Recipient(last') = last'.cust
              \/ \E x \in recommendations : /\ x.recommender = last'.cust
                                             /\ x.customer = Recipient(last')
                                             /\ x.product = last'.pk)
             => /\ last'.status = HTTP_400_BAD_REQUEST
                /\ UNCHANGED recommendations
      ]_vars

\* C21 witness: a recommendation that is stored was requested again, and
\* another customer holds a recommendation too.
C21_Witness ==
    /\ last.op = "recommend"
    /\ last.status = HTTP_400_BAD_REQUEST
    /\ \E x \in recommendations : /\ x.recommender = last.cust
                                  /\ x.customer = Recipient(last)
                                  /\ x.product = last.pk
    /\ Cardinality(recommendations) >= 2

\* The ratings stored for a customer and a product
RatingsOf(table, customer, product) ==
    {x \in table : x.customer = customer /\ x.product = product}

\* C22: after every rate-product request there is at most one ProductRating
\* per customer and product; a request answered 201 for a pair that has a
\* rating leaves that one record, with the rating and the review that were
\* sent, and adds no record.
C22_OneRatingPerPair ==
    [][/\ \A x, y \in ratings' :
             (x.customer = y.customer /\ x.product = y.product) => x = y
       /\ (/\ last'.op = "rate_product" /\ last'.status = HTTP_201_CREATED
           /\ RatingsOf(ratings, last'.cust, last'.pk) # {})
             => /\ {x.id : x \in ratings'} = {x.id : x \in ratings}
                /\ \A x \in RatingsOf(ratings', last'.cust, last'.pk) :
                      /\ x.rating \in {last'.data[k] : k \in DOMAIN last'.data}
                      /\ x.rating = last'.rating
                      /\ x.review = last'.review
                /\ \A x \in ratings :
                      (x.customer # last'.cust \/ x.product # last'.pk) => x \in ratings'
      ]_vars

\* C22 witness: a pair that had a rating was rated again with another rating
\* and another review.
C22_Witness ==
    /\ last.op = "rate_product" /\ last.status = HTTP_201_CREATED
    /\ last.item < Cardinality(ratings)
    /\ last.review = "good"
    /\ \E x \in ratings : x.id # last.item /\ x.rating # last.rating

\* The rating value of a body: what it holds under rating, or under score
\* when it has no rating
SentRating(data) ==
    IF "rating" \in DOMAIN data THEN {data["rating"]}
    ELSE {data[k] : k \in DOMAIN data}

\* C23: a rate-product request whose rating value is outside 1..5 is answered
\* 400 and leaves the ratings as they were; every stored rating is in 1..5.
C23_RatingInRange ==
    [][/\ \A x \in ratings' : x.rating \in 1..5
       /\ (/\ last'.op = "rate_product"
           /\ last'.pk \in Products
           /\ \E v \in SentRating(last'.data) : v \notin 1..5)
             => /\ last'.status = HTTP_400_BAD_REQUEST
                /\ UNCHANGED ratings
      ]_vars

\* The likes stored for a user and a product
LikesOf(table, user, product) ==
    {x \in table : x.user = user /\ x.product = product}

\* C24: after every like or unlike request there is at most one Productlike
\* per user and product.  A like of a stored product that the caller has not
\* liked adds exactly one Productlike, for that pair; a like of a product the
\* caller has liked is answered 400 and adds none; an unlike of a liked
\* product removes that like and no other; an unlike of a product the caller
\* has not liked is answered 404 and changes nothing.
C24_OneLikePerPair ==
    [][/\ \A x, y \in likes' : (x.user = y.user /\ x.product = y.product) => x = y
       /\ (last'.op = "like_create" /\ last'.pk \in Products) =>
             IF LikesOf(likes, last'.cust, last'.pk) = {}
             THEN /\ likes \subseteq likes'
                  /\ Cardinality(likes' \ likes) = 1
                  /\ likes' \ likes \subseteq LikesOf(likes', last'.cust, last'.pk)
             ELSE /\ last'.status = HTTP_400_BAD_REQUEST
                  /\ UNCHANGED likes
       /\ last'.op = "like_destroy" =>
             IF LikesOf(likes, last'.cust, last'.pk) # {}
             THEN likes' = likes \ LikesOf(likes, last'.cust, last'.pk)
             ELSE /\ last'.status = HTTP_404_NOT_FOUND
                  /\ UNCHANGED likes
      ]_vars

\* C24 witness: a product was liked, unliked and liked again by one user, who
\* then asked to like it once more.
C24_Witness ==
    /\ last.op = "like_create"
    /\ last.status = HTTP_400_BAD_REQUEST
    /\ \E x \in LikesOf(likes, last.cust, last.pk) : x.id > 1
    /\ \A x \in likes : x.user = last.cust

====
